---- MODULE Spec2Model ----
(***************************************************************************)
(* Request/response relay of the MCP API handler (mcp-api-handler-next):   *)
(* one unary request handled by handleMessageEndpoint, reached directly    *)
(* through mcpApiHandler or through the Next.js adapter nextJsApiHandler,  *)
(* and the session subscriber handleMessage of handleSseConnection that    *)
(* answers it over the broker channels requests:S and responses:S:R.       *)
(* The POST /message route of the direct-streaming variant is modelled     *)
(* next to it.                                                             *)
(***************************************************************************)
EXTENDS Integers, Sequences, FiniteSets, TLC

VARIABLES
    via,          \* how the unary request reaches mcpApiHandler: "direct" | "adapter"
    sessionId,    \* url.searchParams.get("sessionId") || ""
    pc,           \* position of handleMessageEndpoint; "returned" and "caught" (returned
                  \* through its catch block) are final
    timeout,      \* the 10-second timer of handleMessageEndpoint
    closeH,       \* the res.on("close") handler
    subscribed,   \* redis.client holds a listener on responses:S:R
    unsubCalls,   \* who called redis.client.unsubscribe(responses:S:R), in order
    res,          \* the ServerResponse given to handleMessageEndpoint
    wire,         \* direct mode: what the first res.end put on the socket
    adapter,      \* nextJsApiHandler: isResolved, the resolved Response, its 30-s timer
    brokerOps,    \* subscribe/publish commands the relay issued for this request
    reqPublished, \* the request envelope was published to requests:S
    sseLive,      \* a handleSseConnection is subscribed to requests:S
    reqChan,      \* request envelopes pushed to that subscriber, handleMessage not yet started
    hm,           \* handleMessage of the session subscriber, for request R
    published,    \* envelopes handleMessage published on responses:S:R, in order
    got,          \* messages handed to the reply callback, with the timer state at that moment
    escaped,      \* an exception left a relay callback uncaught
    rt,           \* the POST /message route handler
    sc,           \* one relay streaming connection (handleSseConnection)
    ds,           \* one direct streaming session (createSseStream)
    env,          \* one request envelope on its way from the relay to the subscriber
    mx            \* the shared subscriber connection: listeners of several sessions and requests

vars == <<via, sessionId, pc, timeout, closeH, subscribed, unsubCalls, res, wire,
          adapter, brokerOps, reqPublished, sseLive, reqChan, hm, published,
          got, escaped, rt, sc, ds, env, mx>>

streamVars == <<sc, ds, env, mx>>

inputs == <<via, sessionId, sseLive>>

resp == <<res, wire, adapter, escaped>>

relayVars == <<inputs, resp, pc, timeout, closeH, subscribed, unsubCalls, brokerOps,
               reqPublished, reqChan, hm, published, got>>

----------------------------------------------------------------------------
(* Values *)

None == [status |-> 0, body |-> "none"]

StatusDefault == 200
StatusMissingSession == 400
StatusTimeout == 408
StatusInternal == 500
StatusNoEnd == 204
StatusGateway == 504
StatusInitial == 100

BodyMissingSession == "No sessionId provided"
BodyTimeout == "Request timed out"
BodyInternal == "Internal server error"
BodyParseFailure == "Failed to parse response"
BodyFallback == "Handler timed out, but status was set"
BodyGateway == "Handler timed out without setting status"

\* The calls transport.handlePostMessage makes on the synthetic response:
\* none, writeHead(202).end("Accepted"), writeHead(400).end(error), or a
\* second writeHead and end after the first.
HandlerCalls ==
    { <<>>,
      <<(<<"writeHead", 202>>), (<<"end", "Accepted">>)>>,
      <<(<<"writeHead", 400>>), (<<"end", "Invalid message">>)>>,
      <<(<<"writeHead", 202>>), (<<"end", "Accepted">>),
        (<<"writeHead", 400>>), (<<"end", "Invalid message">>)>> }

\* The overrides that keep the first status and body they were given.
RECURSIVE Capture_FirstWins(_, _)
Capture_FirstWins(calls, e) ==
    IF calls = <<>> THEN e
    ELSE LET c == Head(calls)
         IN  Capture_FirstWins(Tail(calls),
                 IF c[1] = "writeHead"
                 THEN IF e.status = StatusInitial THEN [e EXCEPT !.status = c[2]] ELSE e
                 ELSE IF e.body = "" THEN [e EXCEPT !.body = c[2]] ELSE e)

\* The overridden writeHead and end of the synthetic response, applied to
\* the captured variables call after call: status = statusCode; body = b.
RECURSIVE Capture(_, _)
Capture(calls, e) ==
    IF calls = <<>> THEN e
    ELSE LET c == Head(calls)
         IN  Capture(Tail(calls),
                 IF c[1] = "writeHead" THEN [e EXCEPT !.status = c[2]]
                 ELSE [e EXCEPT !.body = c[2]])

\* What transport.handlePostMessage leaves in the captured status/body.
HandlerResults ==
    { Capture(calls, [status |-> StatusInitial, body |-> ""]) : calls \in HandlerCalls }

\* JSON.stringify({status, body}) and JSON.parse of the reply message.
Stringify(e) == <<"json", e.status, e.body>>
Garbage == <<"garbage">>
Parses(m) == m[1] = "json"
Parse(m) == [status |-> m[2], body |-> m[3]]

NullBody == "null"

\* crypto.randomUUID() of the one request modelled, and the channel names.
RequestId == "r1"
RequestChannel(s) == <<"requests", s>>
ReplyChannel(s, r) == <<"responses", s, r>>

\* The session a live handleSseConnection serves (transport.sessionId).
SseSessionId == "s1"

----------------------------------------------------------------------------
(* The response object and the adapter around it.  o is the triple          *)
(* [res, adapter, wire, uncaught] that one callback reads and writes;       *)
(* uncaught says that the callback let an exception out.                    *)

Cur == [res |-> res, adapter |-> adapter, wire |-> wire, uncaught |-> FALSE]

SetStatus(o, s) == [o EXCEPT !.res.statusCode = s]

ClearTimer(t) == IF t = "armed" THEN "cleared" ELSE t

\* safeResolve without its isResolved flag.
safeResolve_Unguarded(o, response) ==
    [o EXCEPT !.adapter.isResolved = TRUE, !.adapter.response = response]

\* safeResolve: the promise of nextJsApiHandler is resolved by the first call only.
safeResolve(o, response) ==
    IF ~o.adapter.isResolved
    THEN [o EXCEPT !.adapter.isResolved = TRUE, !.adapter.response = response]
    ELSE o

\* this.statusCode || 200 in the overridden end.
EndStatus(o) == IF o.res.statusCode = 0 THEN StatusDefault ELSE o.res.statusCode

\* new Response(chunk, {status}) accepts only 200..599; the adapter's end
\* builds the Response before anything else, so it throws there.
EndThrows(o) == via = "adapter" /\ ~(EndStatus(o) \in 200..599)

\* res.end(chunk).  Direct: the first end sends status and body on the socket,
\* later ends send nothing.  Adapter: the overridden end builds a Response
\* from the current statusCode and hands it to safeResolve (isSSE is false
\* on /message).
End(o, chunk) ==
    LET ended == [o EXCEPT !.res.ends = @ + 1]
    IN  IF via = "adapter"
        THEN safeResolve(ended, [status |-> EndStatus(o), body |-> chunk])
        ELSE IF o.res.ends = 0
             THEN [ended EXCEPT !.wire = [status |-> o.res.statusCode, body |-> chunk]]
             ELSE ended

\* After mcpApiHandler returns: the adapter resolves with 204 when end was
\* never called, and only then clears its 30-second timer.
HandlerReturned(o) ==
    IF via = "adapter" /\ ~o.adapter.isResolved
    THEN safeResolve([o EXCEPT !.adapter.timeout = ClearTimer(@)],
                     [status |-> StatusNoEnd, body |-> NullBody])
    ELSE o

\* Without the catch block: the rejection leaves handleMessageEndpoint.
CatchInternal_Rethrow(o) == HandlerReturned([o EXCEPT !.uncaught = TRUE])

\* The catch block of handleMessageEndpoint, followed by its return.
CatchInternal(o) == HandlerReturned(End(SetStatus(o, StatusInternal), BodyInternal))

\* The listener without its try/catch: a parse failure leaves the callback.
ReplyCallback_NoCatch(o, m) ==
    IF Parses(m)
    THEN End(SetStatus(o, Parse(m).status), Parse(m).body)
    ELSE [o EXCEPT !.uncaught = TRUE]

\* The listener given to redis.client.subscribe(responses:S:R, ...).
ReplyCallback(o, m) ==
    IF Parses(m)
    THEN LET o1 == SetStatus(o, Parse(m).status)
         IN  IF EndThrows(o1)
             THEN End(SetStatus(o1, StatusInternal), BodyParseFailure)
             ELSE End(o1, Parse(m).body)
    ELSE End(SetStatus(o, StatusInternal), BodyParseFailure)

Put(o) ==
    /\ res' = o.res
    /\ adapter' = o.adapter
    /\ wire' = o.wire
    /\ escaped' = (escaped \/ o.uncaught)

----------------------------------------------------------------------------
\* createSseStream not yet called: no frames, no broker clients.
DsIdle ==
    [pc |-> "idle", frames |-> <<>>, setup |-> "none", listening |-> FALSE,
     keepAlive |-> "unset", subOpen |-> FALSE, pubOpen |-> FALSE,
     sessionEvents |-> <<>>, cl |-> [abort |-> "idle", cancel |-> "idle"],
     closed |-> FALSE, unhandled |-> FALSE]

\* No unary request has reached handleMessageEndpoint yet.
EnvIdle ==
    [pc |-> "idle", req |-> <<>>, requestId |-> "none", msg |-> <<>>, fake |-> <<>>,
     parsedId |-> "none"]

\* The subscriber connection right after setupRedisClients: no session, no
\* request, no listener.
MxIdle ==
    [conn |-> [c \in {1, 2} |-> [pc |-> "idle", sid |-> "none"]],
     req |-> [q \in {1, 2} |-> [pc |-> "idle", sid |-> "none", rid |-> "none",
                                timer |-> "unset",
                                outcome |-> [status |-> 0, body |-> "none", by |-> <<>>]]],
     listeners |-> {},
     inflight |-> {}]

Init ==
    /\ via \in {"direct", "adapter"}
    /\ sessionId \in {"", "s1"}
    /\ sseLive \in BOOLEAN
    /\ pc = "idle"
    /\ timeout = "unset"
    /\ closeH = "unset"
    /\ subscribed = FALSE
    /\ unsubCalls = <<>>
    /\ res = [statusCode |-> StatusDefault, ends |-> 0]
    /\ wire = None
    /\ adapter = [isResolved |-> FALSE, response |-> None, timeout |-> "unset"]
    /\ brokerOps = <<>>
    /\ reqPublished = FALSE
    /\ reqChan = <<>>
    /\ hm = [pc |-> "idle", requestId |-> "none", status |-> StatusInitial, body |-> "",
             threw |-> FALSE, errPublishFailed |-> FALSE, calls |-> <<>>]
    /\ published = <<>>
    /\ got = <<>>
    /\ escaped = FALSE
    /\ rt = [pc |-> "idle", data |-> "none", redisUrl |-> FALSE, status |-> 0,
             body |-> "none", ops |-> <<>>]
    /\ sc = [pc |-> "idle", socket |-> FALSE, active |-> FALSE, timer |-> "unset",
             logger |-> "unset", subscribed |-> FALSE, connected |-> FALSE,
             closeReason |-> "none", clientClosed |-> FALSE, cleanups |-> 0,
             res |-> [statusCode |-> StatusDefault, ends |-> 0]]
    /\ ds = DsIdle
    /\ env = EnvIdle
    /\ mx = MxIdle

----------------------------------------------------------------------------
(* handleMessageEndpoint, one action per await *)

\* The request reaches mcpApiHandler; through the adapter, nextJsApiHandler
\* first arms its 30-second fallback timer (isSSE is false).
Arrive ==
    /\ pc = "idle"
    /\ pc' = "body"
    /\ adapter' = IF via = "adapter" THEN [adapter EXCEPT !.timeout = "armed"] ELSE adapter
    /\ UNCHANGED <<inputs, timeout, closeH, subscribed, unsubCalls, res, wire, escaped,
                   brokerOps, reqPublished, reqChan, hm, published, got, rt, streamVars>>

\* BodyRead without the sessionId check.
BodyRead_NoSessionCheck ==
    /\ pc = "body"
    /\ timeout' = "armed"
    /\ closeH' = "registered"
    /\ brokerOps' = Append(brokerOps, <<"subscribe", ReplyChannel(sessionId, RequestId)>>)
    /\ pc' = "subscribing"
    /\ UNCHANGED <<inputs, resp, subscribed, unsubCalls, reqPublished, reqChan, hm,
                   published, got, rt, streamVars>>

\* getRawBody resolved.  Without a sessionId: 400 and return.  Otherwise the
\* timer is armed, the close handler registered and the subscribe issued.
BodyRead ==
    /\ pc = "body"
    /\ IF sessionId = ""
       THEN /\ Put(HandlerReturned(End(SetStatus(Cur, StatusMissingSession),
                                       BodyMissingSession)))
            /\ pc' = "returned"
            /\ UNCHANGED <<timeout, closeH, brokerOps>>
       ELSE /\ timeout' = "armed"
            /\ closeH' = "registered"
            /\ brokerOps' = Append(brokerOps, <<"subscribe", ReplyChannel(sessionId, RequestId)>>)
            /\ pc' = "subscribing"
            /\ UNCHANGED resp
    /\ UNCHANGED <<inputs, subscribed, unsubCalls, reqPublished, reqChan, hm, published,
                   got, rt, streamVars>>

\* getRawBody rejected (aborted upload, length mismatch): the catch block.
BodyFails ==
    /\ pc = "body"
    /\ Put(CatchInternal(Cur))
    /\ pc' = "caught"
    /\ UNCHANGED <<inputs, timeout, closeH, subscribed, unsubCalls, brokerOps,
                   reqPublished, reqChan, hm, published, got, rt, streamVars>>

\* redis.client.subscribe resolved; the publish is issued next.
SubscribeOk ==
    /\ pc = "subscribing"
    /\ subscribed' = TRUE
    /\ brokerOps' = Append(brokerOps, <<"publish", RequestChannel(sessionId)>>)
    /\ pc' = "publishing"
    /\ UNCHANGED <<inputs, timeout, closeH, unsubCalls, resp, reqPublished, reqChan, hm,
                   published, got, rt, streamVars>>

SubscribeFails ==
    /\ pc = "subscribing"
    /\ Put(CatchInternal(Cur))
    /\ pc' = "caught"
    /\ UNCHANGED <<inputs, timeout, closeH, subscribed, unsubCalls, brokerOps,
                   reqPublished, reqChan, hm, published, got, rt, streamVars>>

\* The envelope published without waiting for the subscribe to resolve.
PublishSent_Early ==
    /\ pc \in {"subscribing", "publishing"}
    /\ reqPublished' = TRUE
    /\ reqChan' = IF sseLive /\ sessionId = SseSessionId
                  THEN Append(reqChan, [requestId |-> RequestId])
                  ELSE reqChan
    /\ pc' = "published"
    /\ UNCHANGED <<inputs, timeout, closeH, subscribed, unsubCalls, resp, brokerOps, hm,
                   published, got, rt, streamVars>>

\* The broker takes the request envelope: it is pushed to the subscriber of
\* requests:{sessionId} when there is one and is dropped otherwise.
PublishSent ==
    /\ pc = "publishing"
    /\ reqPublished' = TRUE
    /\ reqChan' = IF sseLive /\ sessionId = SseSessionId
                  THEN Append(reqChan, [requestId |-> RequestId])
                  ELSE reqChan
    /\ pc' = "published"
    /\ UNCHANGED <<inputs, timeout, closeH, subscribed, unsubCalls, resp, brokerOps, hm,
                   published, got, rt, streamVars>>

\* redis.publisher.publish resolved: handleMessageEndpoint returns.
PublishAck ==
    /\ pc = "published"
    /\ Put(HandlerReturned(Cur))
    /\ pc' = "returned"
    /\ UNCHANGED <<inputs, timeout, closeH, subscribed, unsubCalls, brokerOps,
                   reqPublished, reqChan, hm, published, got, rt, streamVars>>

PublishFails ==
    /\ pc = "publishing"
    /\ Put(CatchInternal(Cur))
    /\ pc' = "caught"
    /\ UNCHANGED <<inputs, timeout, closeH, subscribed, unsubCalls, brokerOps,
                   reqPublished, reqChan, hm, published, got, rt, streamVars>>

\* An unsubscribe is answered after the subscribe issued before it on the
\* same connection.
UnsubscribeAnswered == pc # "subscribing"

\* The 10-second timer fires: the callback issues the unsubscribe and awaits it.
TimeoutFires ==
    /\ timeout = "armed"
    /\ timeout' = "unsubscribing"
    /\ unsubCalls' = Append(unsubCalls, "timeout")
    /\ UNCHANGED <<inputs, pc, closeH, subscribed, resp, brokerOps, reqPublished, reqChan,
                   hm, published, got, rt, streamVars>>

\* The rest of the timeout callback: 408 whether the unsubscribe worked or not.
TimeoutEnds(ok) ==
    /\ timeout = "unsubscribing"
    /\ UnsubscribeAnswered
    /\ subscribed' = IF ok THEN FALSE ELSE subscribed
    /\ Put(End(SetStatus(Cur, StatusTimeout), BodyTimeout))
    /\ timeout' = "done"
    /\ UNCHANGED <<inputs, pc, closeH, unsubCalls, brokerOps, reqPublished, reqChan, hm,
                   published, got, rt, streamVars>>

TimeoutUnsubscribed == TimeoutEnds(TRUE)

TimeoutUnsubscribeFails == TimeoutEnds(FALSE)

\* The close handler without its clearTimeout.
CloseFires_KeepTimer ==
    /\ via = "direct"
    /\ closeH = "registered"
    /\ closeH' = "unsubscribing"
    /\ unsubCalls' = Append(unsubCalls, "close")
    /\ UNCHANGED <<inputs, pc, timeout, subscribed, resp, brokerOps, reqPublished, reqChan,
                   hm, published, got, rt, streamVars>>

\* "close" on a response that has a socket (direct mode): after the response
\* was sent, or when the caller goes away first.  The response the adapter
\* builds has no socket and never emits it.
CloseFires ==
    /\ via = "direct"
    /\ closeH = "registered"
    /\ closeH' = "unsubscribing"
    /\ timeout' = ClearTimer(timeout)
    /\ unsubCalls' = Append(unsubCalls, "close")
    /\ UNCHANGED <<inputs, pc, subscribed, resp, brokerOps, reqPublished, reqChan, hm,
                   published, got, rt, streamVars>>

CloseEnds(ok) ==
    /\ closeH = "unsubscribing"
    /\ UnsubscribeAnswered
    /\ subscribed' = IF ok THEN FALSE ELSE subscribed
    /\ closeH' = "done"
    /\ UNCHANGED <<inputs, pc, timeout, unsubCalls, resp, brokerOps, reqPublished,
                   reqChan, hm, published, got, rt, streamVars>>

CloseUnsubscribed == CloseEnds(TRUE)

CloseUnsubscribeFails == CloseEnds(FALSE)

\* The adapter's 30-second fallback timer.
AdapterTimeoutFires ==
    /\ adapter.timeout = "armed"
    /\ LET o == [Cur EXCEPT !.adapter.timeout = "fired"]
       IN  Put(IF o.adapter.isResolved
               THEN o
               ELSE IF o.res.statusCode # 0
                    THEN safeResolve(o, [status |-> o.res.statusCode, body |-> BodyFallback])
                    ELSE safeResolve(o, [status |-> StatusGateway, body |-> BodyGateway]))
    /\ UNCHANGED <<inputs, pc, timeout, closeH, subscribed, unsubCalls, brokerOps,
                   reqPublished, reqChan, hm, published, got, rt, streamVars>>

----------------------------------------------------------------------------
(* What the unary caller holds: the Response the adapter's promise resolved *)
(* with, or in direct mode what the first res.end sent.                     *)

CallerResolved == IF via = "adapter" THEN adapter.isResolved ELSE res.ends > 0

CallerResponse == IF via = "adapter" THEN adapter.response ELSE wire

----------------------------------------------------------------------------
(* The broker's reply channel responses:S:R *)

\* A message published on channel ch is pushed to the relay's listener if it
\* is subscribed to ch at that moment and is dropped otherwise.  The listener
\* is synchronous: clearTimeout, then ReplyCallback.
DeliverReply(ch, m) ==
    IF subscribed /\ ch = ReplyChannel(sessionId, RequestId)
    THEN /\ got' = Append(got, [msg |-> m, timer |-> timeout, pending |-> ~CallerResolved])
         /\ timeout' = ClearTimer(timeout)
         /\ Put(ReplyCallback(Cur, m))
    ELSE UNCHANGED <<got, timeout, resp>>

----------------------------------------------------------------------------
(* handleMessage, the listener of handleSseConnection on requests:S *)

ErrorEnvelope == [status |-> StatusInternal, body |-> BodyInternal]

\* The message is parsed and the synthetic request/response are built;
\* status = 100 and body = "" until the protocol handler writes them.
HmReceive ==
    /\ reqChan # <<>>
    /\ hm.pc = "idle"
    /\ reqChan' = Tail(reqChan)
    /\ hm' = [hm EXCEPT !.pc = "processing", !.requestId = Head(reqChan).requestId,
                        !.status = StatusInitial, !.body = ""]
    /\ UNCHANGED <<inputs, pc, timeout, closeH, subscribed, unsubCalls, resp, brokerOps,
                   reqPublished, published, got, rt, streamVars>>

\* Building the synthetic transport throws: the catch block is entered and
\* reads the request id from the message again.
HmBuildThrows ==
    /\ reqChan # <<>>
    /\ hm.pc = "idle"
    /\ reqChan' = Tail(reqChan)
    /\ hm' = [hm EXCEPT !.pc = "catch", !.requestId = Head(reqChan).requestId,
                        !.threw = TRUE]
    /\ UNCHANGED <<inputs, pc, timeout, closeH, subscribed, unsubCalls, resp, brokerOps,
                   reqPublished, published, got, rt, streamVars>>

\* transport.handlePostMessage resolved, having written e (or nothing) to
\* the synthetic response; the success publish is issued.
HmHandlerDone ==
    /\ hm.pc = "processing"
    /\ \E calls \in HandlerCalls :
          LET e == Capture(calls, [status |-> hm.status, body |-> hm.body])
          IN  hm' = [hm EXCEPT !.pc = "publishing", !.calls = calls,
                               !.status = e.status, !.body = e.body]
    /\ UNCHANGED <<inputs, pc, timeout, closeH, subscribed, unsubCalls, resp, brokerOps,
                   reqPublished, reqChan, published, got, rt, streamVars>>

HmHandlerThrows ==
    /\ hm.pc = "processing"
    /\ hm' = [hm EXCEPT !.pc = "catch", !.threw = TRUE]
    /\ UNCHANGED <<inputs, pc, timeout, closeH, subscribed, unsubCalls, resp, brokerOps,
                   reqPublished, reqChan, published, got, rt, streamVars>>

\* One publish of handleMessage that went through.
HmSend(e) ==
    LET ch == ReplyChannel(SseSessionId, hm.requestId)
        m == Stringify(e)
    IN  /\ published' = Append(published, [channel |-> ch, msg |-> m])
        /\ DeliverReply(ch, m)

\* The success publish went through.
HmPublish ==
    /\ hm.pc = "publishing"
    /\ HmSend([status |-> hm.status, body |-> hm.body])
    /\ hm' = [hm EXCEPT !.pc = "done"]
    /\ UNCHANGED <<inputs, pc, closeH, subscribed, unsubCalls, brokerOps, reqPublished,
                   reqChan, rt, streamVars>>

\* A success publish that throws after the envelope went out.
HmPublishFails_AfterSend ==
    /\ hm.pc = "publishing"
    /\ HmSend([status |-> hm.status, body |-> hm.body])
    /\ hm' = [hm EXCEPT !.pc = "catch", !.threw = TRUE]
    /\ UNCHANGED <<inputs, pc, closeH, subscribed, unsubCalls, brokerOps, reqPublished,
                   reqChan, rt, streamVars>>

\* The success publish throws: the catch block is entered.
HmPublishFails ==
    /\ hm.pc = "publishing"
    /\ hm' = [hm EXCEPT !.pc = "catch", !.threw = TRUE]
    /\ UNCHANGED <<inputs, pc, timeout, closeH, subscribed, unsubCalls, resp, brokerOps,
                   reqPublished, reqChan, published, got, rt, streamVars>>

\* A catch block that only logs.
HmErrorPublish_Omitted ==
    /\ hm.pc = "catch"
    /\ hm' = [hm EXCEPT !.pc = "done"]
    /\ UNCHANGED <<inputs, pc, timeout, closeH, subscribed, unsubCalls, resp, brokerOps,
                   reqPublished, reqChan, published, got, rt, streamVars>>

\* The catch block publishes the error envelope.
HmErrorPublish ==
    /\ hm.pc = "catch"
    /\ HmSend(ErrorEnvelope)
    /\ hm' = [hm EXCEPT !.pc = "done"]
    /\ UNCHANGED <<inputs, pc, closeH, subscribed, unsubCalls, brokerOps, reqPublished,
                   reqChan, rt, streamVars>>

\* The error publish throws too: caught and logged, nothing is published.
HmErrorPublishFails ==
    /\ hm.pc = "catch"
    /\ hm' = [hm EXCEPT !.pc = "done", !.errPublishFailed = TRUE]
    /\ UNCHANGED <<inputs, pc, timeout, closeH, subscribed, unsubCalls, resp, brokerOps,
                   reqPublished, reqChan, published, got, rt, streamVars>>

----------------------------------------------------------------------------
Relay ==
    \/ Arrive
    \/ BodyRead
    \/ BodyFails
    \/ SubscribeOk
    \/ SubscribeFails
    \/ PublishSent
    \/ PublishAck
    \/ PublishFails
    \/ TimeoutFires
    \/ TimeoutUnsubscribed
    \/ TimeoutUnsubscribeFails
    \/ CloseFires
    \/ CloseUnsubscribed
    \/ CloseUnsubscribeFails
    \/ AdapterTimeoutFires

Subscriber ==
    \/ HmReceive
    \/ HmBuildThrows
    \/ HmHandlerDone
    \/ HmHandlerThrows
    \/ HmPublish
    \/ HmPublishFails
    \/ HmErrorPublish
    \/ HmErrorPublishFails

Next == Relay \/ Subscriber

Spec == Init /\ [][Next]_vars

\* Node fires an armed timer and settles the unsubscribe it awaits.
FairSpec ==
    /\ Spec
    /\ WF_vars(TimeoutFires)
    /\ WF_vars(TimeoutUnsubscribed \/ TimeoutUnsubscribeFails)

----------------------------------------------------------------------------
(* A message on responses:S:R that is not a response envelope.  handleMessage *)
(* only publishes JSON.stringify({status, body}); this one comes from any     *)
(* other client of the broker.                                                *)

MaxStray == 1

Strays == Len(SelectSeq(got, LAMBDA g : ~Parses(g.msg)))

StrayReply ==
    /\ subscribed
    /\ Strays < MaxStray
    /\ DeliverReply(ReplyChannel(sessionId, RequestId), Garbage)
    /\ UNCHANGED <<inputs, pc, closeH, subscribed, unsubCalls, brokerOps, reqPublished,
                   reqChan, hm, published, rt, streamVars>>

NextStray == Next \/ StrayReply

SpecStray == Init /\ [][NextStray]_vars

----------------------------------------------------------------------------
(* POST /message of the direct-streaming variant (app/message/route.ts) *)

\* What request.json() yields: it throws on a body that is not JSON, or
\* gives an object with or without a sessionId field.
RouteBodies == {"notJson", "noSessionId", "withSessionId"}

RtReturn(r, status, body) == [r EXCEPT !.pc = "returned", !.status = status, !.body = body]

\* From the call to the first await after request.json(): the sessionId
\* check, the Redis URL check, createClient and the connect call.
RtPost ==
    /\ rt.pc = "idle"
    /\ \E data \in RouteBodies, url \in BOOLEAN :
          LET r == [rt EXCEPT !.data = data, !.redisUrl = url]
          IN  rt' = IF data = "notJson"
                    THEN RtReturn(r, StatusInternal, "error")
                    ELSE IF data = "noSessionId"
                    THEN RtReturn(r, StatusMissingSession, "Missing sessionId")
                    ELSE IF ~url
                    THEN RtReturn(r, StatusInternal, "Server configuration error")
                    ELSE [r EXCEPT !.pc = "connecting", !.ops = Append(@, "connect")]
    /\ UNCHANGED <<relayVars, streamVars>>

\* redisPublisher.connect() resolved; the publish to events:S is issued.
RtConnected ==
    /\ rt.pc = "connecting"
    /\ rt' = [rt EXCEPT !.pc = "publishing", !.ops = Append(@, "publish")]
    /\ UNCHANGED <<relayVars, streamVars>>

\* sendMessage(data) of the stream: controller.enqueue of one frame; on a
\* cancelled stream enqueue throws and nothing catches it.
sendMessage(d, frame) ==
    IF d.closed THEN [d EXCEPT !.unhandled = TRUE]
    ELSE [d EXCEPT !.frames = Append(@, frame)]

\* The message published on events:S, as the stream's listener receives it.
EventMessage == <<"event", "m1">>

\* The publish to events:S is done: the broker hands the message to the
\* stream's listener when the session of the body is subscribed, and drops
\* it otherwise. The disconnect is issued.
RtPublished ==
    /\ rt.pc = "publishing"
    /\ rt' = [rt EXCEPT !.pc = "disconnecting", !.ops = Append(@, "disconnect")]
    /\ ds' = IF ds.listening THEN sendMessage(ds, EventMessage) ELSE ds
    /\ UNCHANGED <<relayVars, sc, env, mx>>

RtDisconnected ==
    /\ rt.pc = "disconnecting"
    /\ rt' = RtReturn(rt, StatusDefault, "success")
    /\ UNCHANGED <<relayVars, streamVars>>

\* connect, publish or disconnect rejected: the catch block.
RtFails ==
    /\ rt.pc \in {"connecting", "publishing", "disconnecting"}
    /\ rt' = RtReturn(rt, StatusInternal, "error")
    /\ UNCHANGED <<relayVars, streamVars>>

Route ==
    \/ RtPost
    \/ RtConnected
    \/ RtPublished
    \/ RtDisconnected
    \/ RtFails

NextUnary == Next \/ Route

SpecUnary == Init /\ [][NextUnary]_vars

----------------------------------------------------------------------------
(* Properties *)

Final == pc \in {"returned", "caught"}

\* The caller's response closed before the relay resolved it.
CallerGone == closeH \in {"unsubscribing", "done"}

\* C1: when the request envelope was published and a well-formed response
\* envelope reaches the reply listener before the 10-second timer fires, the
\* unary caller holds exactly that envelope's status and body.
C1_RelayedExactly ==
    \A i \in 1..Len(got) :
        (/\ reqPublished
         /\ Parses(got[i].msg)
         /\ Parse(got[i].msg).status \in 200..599
         /\ got[i].timer = "armed")
        => (CallerResolved /\ CallerResponse = Parse(got[i].msg))

\* C2: when the request was published, the 10-second timeout callback has
\* run to its end and no message ever reached the reply listener, the unary
\* caller holds status 408.
C2_TimeoutGives408 ==
    (reqPublished /\ timeout = "done" /\ got = <<>>)
    => (CallerResolved /\ CallerResponse.status = StatusTimeout)

C4_FourOutcomes ==
    (CallerResolved /\ adapter.timeout # "fired")
    => \/ CallerResponse.status \in {StatusMissingSession, StatusTimeout, StatusInternal}
       \/ \E i \in 1..Len(got) :
             Parses(got[i].msg) /\ CallerResponse = Parse(got[i].msg)

\* C5: the response of a request is ended at most once.
C5_ResolvedOnce == res.ends <= 1

\* C6: once a reply has resolved the request and nothing else is left to
\* happen, no subscription on responses:S:R exists, although neither the
\* timeout path nor the close handler unsubscribed.
C6_ReplyPathUnsubscribes ==
    (got # <<>> /\ unsubCalls = <<>> /\ ~ENABLED Next) => ~subscribed

\* C7: once the timeout callback of a published, unanswered request has run,
\* exactly one unsubscribe of responses:S:R has been issued.
C7_TimeoutUnsubscribesOnce ==
    (reqPublished /\ got = <<>> /\ timeout = "done") => Len(unsubCalls) = 1

C9_FailureContained ==
    /\ hm.pc # "rejected"
    /\ (hm.pc = "done" /\ hm.threw)
       => published = IF hm.errPublishFailed
                      THEN <<>>
                      ELSE << [channel |-> ReplyChannel(SseSessionId, RequestId),
                               msg |-> Stringify(ErrorEnvelope)] >>

C9_Witness ==
    /\ hm.pc = "done"
    /\ hm.threw
    /\ ~hm.errPublishFailed
    /\ Len(published) = 1

C17_SubscribeBeforePublish ==
    /\ reqPublished =>
          /\ brokerOps = <<(<<"subscribe", ReplyChannel(sessionId, RequestId)>>),
                           (<<"publish", RequestChannel(sessionId)>>)>>
          /\ subscribed \/ unsubCalls # <<>>
    /\ (pc = "subscribing" \/ (pc = "caught" /\ Len(brokerOps) < 2)) => ~reqPublished

\* The envelope is on requests:S and the reply listener is in place.
C17_Witness == reqPublished /\ subscribed /\ pc = "published" /\ unsubCalls = <<>>

\* C22: when the caller's response closes before anything was written to
\* it, the close handler leaves no timer armed and issues the unsubscribe
\* from responses:S:R without touching the session subscriber; handleMessage
\* can always go on to its end once it has started, and an envelope it
\* publishes when the relay's listener is gone reaches nobody.
C22_CallerCancellation ==
    /\ [][ (closeH = "registered" /\ closeH' = "unsubscribing" /\ res.ends = 0)
            => /\ timeout' # "armed"
               /\ unsubCalls' = Append(unsubCalls, "close")
               /\ UNCHANGED <<hm, reqChan, published, resp>> ]_vars
    /\ [][ (~subscribed /\ Len(published') > Len(published))
            => UNCHANGED <<got, resp, timeout>> ]_vars
    /\ []((CallerGone /\ hm.pc \in {"processing", "publishing", "catch"})
            => ENABLED Subscriber)

\* The caller left unanswered, the relay unsubscribed, and handleMessage
\* still ran to its end and published its envelope, which nobody received.
C22_Witness ==
    /\ closeH = "done"
    /\ ~subscribed
    /\ res.ends = 0
    /\ hm.pc = "done"
    /\ Len(published) = 1
    /\ got = <<>>

\* The second component of the last call of the given kind, d when the
\* handler made no such call.
LastPassed(calls, kind, d) ==
    LET I == {i \in 1..Len(calls) : calls[i][1] = kind}
    IN  IF I = {} THEN d ELSE calls[CHOOSE i \in I : \A j \in I : j <= i][2]

\* C24: the response envelope of handleMessage is published only after the
\* protocol handler has finished, and it carries the status last passed to
\* writeHead and the body last passed to end of the synthetic response, or
\* 100 and the empty body when the handler called neither.
C24_CapturedResult ==
    \A i \in 1..Len(published) :
        published[i].msg # Stringify(ErrorEnvelope) =>
            /\ hm.pc = "done"
            /\ published[i].msg =
                  Stringify([status |-> LastPassed(hm.calls, "writeHead", StatusInitial),
                             body |-> LastPassed(hm.calls, "end", "")])

\* An envelope published for a handler that called writeHead and end twice.
C24_Witness ==
    /\ Len(hm.calls) = 4
    /\ Len(published) = 1
    /\ published[1].msg = Stringify([status |-> 400, body |-> "Invalid message"])

\* The adapter's 30-second timer, once armed, fires unless it is cleared.
FairSpecAdapter == Spec /\ WF_vars(AdapterTimeoutFires)

\* C25: the promise of nextJsApiHandler for a non-streaming request is
\* eventually resolved, also when the handler never calls end on the
\* synthetic response, and once resolved it keeps the Response it has.
C25_AdapterFallback ==
    /\ (via = "adapter" /\ pc # "idle") ~> adapter.isResolved
    /\ [][ adapter.isResolved
            => adapter'.isResolved /\ adapter'.response = adapter.response ]_vars

\* Resolved by the 30-second timer while the handler had neither returned
\* nor called end.
C25_Witness ==
    /\ via = "adapter"
    /\ adapter.timeout = "fired"
    /\ adapter.response = [status |-> StatusDefault, body |-> BodyFallback]
    /\ res.ends = 0
    /\ ~Final

----------------------------------------------------------------------------
(* handleSseConnection: one relay streaming connection *)

\* cleanup() up to its await: clearTimeout(timeout), logger.clearInterval(),
\* and the unsubscribe from requests:S is issued.
CleanupBegins(c) ==
    [c EXCEPT !.pc = "cleanup",
              !.cleanups = @ + 1,
              !.timer = IF @ = "armed" THEN "cleared" ELSE @,
              !.logger = "cleared"]

\* The rest of cleanup(): res.statusCode = 200; res.end().
CleanupEnds(c) ==
    [c EXCEPT !.pc = "returned",
              !.res = [statusCode |-> StatusDefault, ends |-> @.ends + 1]]

\* resolve(reason) of waitPromise: only the first call settles it.
ResolveWait(c, reason) ==
    [c EXCEPT !.closeReason = IF @ = "none" THEN reason ELSE @]

\* From the call to the first await: the transport and the server are built,
\* the server is pushed on activeServers, the logger interval and the
\* max-duration timer are started, the req "close" listener is registered
\* and the subscribe to requests:S is issued. The response has a socket when
\* the request came from Node's http server, none under the adapter.
ScStart ==
    /\ sc.pc = "idle"
    /\ \E socket \in BOOLEAN :
          sc' = [sc EXCEPT !.pc = "subscribing", !.socket = socket, !.active = TRUE,
                           !.timer = "armed", !.logger = "running"]
    /\ UNCHANGED <<relayVars, rt, ds, env, mx>>

ScSubscribeOk ==
    /\ sc.pc = "subscribing"
    /\ sc' = [sc EXCEPT !.pc = "connecting", !.subscribed = TRUE]
    /\ UNCHANGED <<relayVars, rt, ds, env, mx>>

\* The subscribe rejected and the handler goes on to server.connect.
ScSubscribeFails_Continue ==
    /\ sc.pc = "subscribing"
    /\ sc' = [sc EXCEPT !.pc = "connecting"]
    /\ UNCHANGED <<relayVars, rt, ds, env, mx>>

\* The subscribe rejected: 500 is written and the handler returns.
ScSubscribeFails ==
    /\ sc.pc = "subscribing"
    /\ sc' = [sc EXCEPT !.pc = "returned",
                        !.res = [statusCode |-> StatusInternal, ends |-> @.ends + 1]]
    /\ UNCHANGED <<relayVars, rt, ds, env, mx>>

\* server.connect(transport) resolved: the transport listens for the
\* response's "close"; the handler now awaits waitPromise.
ScConnected ==
    /\ sc.pc = "connecting"
    /\ sc' = [sc EXCEPT !.pc = "waiting", !.connected = TRUE]
    /\ UNCHANGED <<relayVars, rt, ds, env, mx>>

\* server.connect(transport) rejected: catch, then finally calls cleanup().
ScConnectFails ==
    /\ sc.pc = "connecting"
    /\ sc' = CleanupBegins(sc)
    /\ UNCHANGED <<relayVars, rt, ds, env, mx>>

\* The max-duration timer expires.
ScTimerFires ==
    /\ sc.timer = "armed"
    /\ sc' = ResolveWait([sc EXCEPT !.timer = "fired"], "max duration reached")
    /\ UNCHANGED <<relayVars, rt, ds, env, mx>>

\* The client goes away: req emits "close". The synthetic request of the
\* adapter never emits it.
ScClientClose ==
    /\ sc.pc # "idle"
    /\ sc.socket
    /\ ~sc.clientClosed
    /\ sc' = ResolveWait([sc EXCEPT !.clientClosed = TRUE], "client hang up")
    /\ UNCHANGED <<relayVars, rt, ds, env, mx>>

\* waitPromise is settled: the handler leaves the try block and finally
\* calls cleanup().
ScWake ==
    /\ sc.pc = "waiting"
    /\ sc.closeReason # "none"
    /\ sc' = CleanupBegins(sc)
    /\ UNCHANGED <<relayVars, rt, ds, env, mx>>

ScUnsubscribed ==
    /\ sc.pc = "cleanup"
    /\ sc' = CleanupEnds([sc EXCEPT !.subscribed = FALSE])
    /\ UNCHANGED <<relayVars, rt, ds, env, mx>>

\* The unsubscribe rejected: logged, cleanup goes on.
ScUnsubscribeFails ==
    /\ sc.pc = "cleanup"
    /\ sc' = CleanupEnds(sc)
    /\ UNCHANGED <<relayVars, rt, ds, env, mx>>

\* server.server.onclose runs: the connected transport saw the response's
\* socket close, after the client left or the response was ended.
ScOnClose ==
    /\ sc.connected
    /\ sc.socket
    /\ sc.clientClosed \/ sc.res.ends > 0
    /\ sc.active
    /\ sc' = [sc EXCEPT !.active = FALSE]
    /\ UNCHANGED <<relayVars, rt, ds, env, mx>>

SseConnection ==
    \/ ScStart
    \/ ScSubscribeOk
    \/ ScSubscribeFails
    \/ ScConnected
    \/ ScConnectFails
    \/ ScTimerFires
    \/ ScClientClose
    \/ ScWake
    \/ ScUnsubscribed
    \/ ScUnsubscribeFails
    \/ ScOnClose

----------------------------------------------------------------------------
(* createSseStream: one direct streaming session *)

\* Heartbeats recorded in ds.frames; later ones are sent but not recorded.
MaxPings == 1

ConnectionFrame == <<"connection", "established">>
PingFrame == <<"ping">>
ErrorFrame == <<"error", "Failed to establish subscription">>

Pings(frames) == Cardinality({i \in 1..Len(frames) : frames[i] = PingFrame})

\* GET with accept text/event-stream: without a Redis URL the answer is 500,
\* otherwise both clients are created and their connects awaited.
DsGet ==
    /\ ds.pc = "idle"
    /\ \E url \in BOOLEAN :
          ds' = [ds EXCEPT !.pc = IF url THEN "connecting" ELSE "failed"]
    /\ UNCHANGED <<relayVars, rt, sc, env, mx>>

\* start(controller) without its first sendMessage.
DsConnected_NoConnectionFrame ==
    /\ ds.pc = "connecting"
    /\ ds' = [ds EXCEPT !.pc = "streaming", !.subOpen = TRUE, !.pubOpen = TRUE,
                        !.setup = "subscribing", !.keepAlive = "running"]
    /\ UNCHANGED <<relayVars, rt, sc, env, mx>>

\* Both connects resolved; new ReadableStream runs start(controller): the
\* connection frame, the call of setupRedisSubscription up to its first
\* await, the keep-alive interval, sseCleanup and the abort listener. The
\* streaming Response is returned.
DsConnected ==
    /\ ds.pc = "connecting"
    /\ ds' = [sendMessage(ds, ConnectionFrame) EXCEPT
                 !.pc = "streaming", !.subOpen = TRUE, !.pubOpen = TRUE,
                 !.setup = "subscribing", !.keepAlive = "running"]
    /\ UNCHANGED <<relayVars, rt, sc, env, mx>>

\* A connect rejected: 500 "Failed to establish server connection".
DsConnectFails ==
    /\ ds.pc = "connecting"
    /\ ds' = [ds EXCEPT !.pc = "failed"]
    /\ UNCHANGED <<relayVars, rt, sc, env, mx>>

\* setupRedisSubscription: the subscribe to events:S resolved, the
\* client_connected publish is issued.
DsSubscribed ==
    /\ ds.setup = "subscribing"
    /\ ds.subOpen
    /\ ds' = [ds EXCEPT !.setup = "announcing", !.listening = TRUE]
    /\ UNCHANGED <<relayVars, rt, sc, env, mx>>

DsAnnounced ==
    /\ ds.setup = "announcing"
    /\ ds.pubOpen
    /\ ds' = [ds EXCEPT !.setup = "done",
                        !.sessionEvents = Append(@, "client_connected")]
    /\ UNCHANGED <<relayVars, rt, sc, env, mx>>

\* The subscribe or the publish rejected (a closed client rejects every
\* command): the catch block sends the error frame.
DsSetupFails ==
    /\ ds.setup \in {"subscribing", "announcing"}
    /\ ds' = [sendMessage(ds, ErrorFrame) EXCEPT !.setup = "failed"]
    /\ UNCHANGED <<relayVars, rt, sc, env, mx>>

\* The keep-alive interval ticks.
DsPing ==
    /\ ds.keepAlive = "running"
    /\ ds' = IF Pings(ds.frames) < MaxPings THEN sendMessage(ds, PingFrame) ELSE ds
    /\ UNCHANGED <<relayVars, rt, sc, env, mx>>

\* The two callers of sseCleanup: the request's abort listener and the
\* stream's cancel().
CleanupCallers == {"abort", "cancel"}

\* sseCleanup up to its first await: clearInterval(keepAlive) and the
\* unsubscribe from events:S is issued.
sseCleanup(d, c) ==
    [d EXCEPT !.keepAlive = "cleared", !.cl[c] = "unsubscribing"]

\* request.signal aborts: the listener calls sseCleanup without awaiting it.
DsAbort ==
    /\ ds.pc = "streaming"
    /\ ds.cl.abort = "idle"
    /\ ds' = sseCleanup(ds, "abort")
    /\ UNCHANGED <<relayVars, rt, sc, env, mx>>

\* The consumer cancels the stream: the stream is closed and cancel()
\* awaits sseCleanup.
DsCancel ==
    /\ ds.pc = "streaming"
    /\ ds.cl.cancel = "idle"
    /\ ds' = sseCleanup([ds EXCEPT !.closed = TRUE], "cancel")
    /\ UNCHANGED <<relayVars, rt, sc, env, mx>>

\* The unsubscribe resolved (commands of one client are answered in order);
\* the client_disconnected publish is issued.
DsCleanupUnsubscribed(c) ==
    /\ ds.cl[c] = "unsubscribing"
    /\ ds.subOpen
    /\ ds.setup # "subscribing"
    /\ ds' = [ds EXCEPT !.listening = FALSE, !.cl[c] = "publishing"]
    /\ UNCHANGED <<relayVars, rt, sc, env, mx>>

\* The publish on session:S resolved, after the client_connected publish
\* issued before it on the same client; both disconnects are issued.
DsCleanupPublished(c) ==
    /\ ds.cl[c] = "publishing"
    /\ ds.pubOpen
    /\ ds.setup # "announcing"
    /\ ds' = [ds EXCEPT !.sessionEvents = Append(@, "client_disconnected"),
                        !.cl[c] = "disconnecting"]
    /\ UNCHANGED <<relayVars, rt, sc, env, mx>>

\* Both disconnects resolved.
DsCleanupDisconnected(c) ==
    /\ ds.cl[c] = "disconnecting"
    /\ ds.subOpen /\ ds.pubOpen
    /\ ds' = [ds EXCEPT !.subOpen = FALSE, !.pubOpen = FALSE, !.cl[c] = "done"]
    /\ UNCHANGED <<relayVars, rt, sc, env, mx>>

\* The awaited command rejected (a closed client rejects every command):
\* the one catch block of sseCleanup logs and the call ends there.
DsCleanupFails(c) ==
    /\ ds.cl[c] \in {"unsubscribing", "publishing", "disconnecting"}
    /\ ds' = [ds EXCEPT !.cl[c] = "failed"]
    /\ UNCHANGED <<relayVars, rt, sc, env, mx>>

DirectStream ==
    \/ DsGet
    \/ DsConnected
    \/ DsConnectFails
    \/ DsSubscribed
    \/ DsAnnounced
    \/ DsSetupFails
    \/ DsPing
    \/ DsAbort
    \/ DsCancel
    \/ \E c \in CleanupCallers : DsCleanupUnsubscribed(c)
    \/ \E c \in CleanupCallers : DsCleanupPublished(c)
    \/ \E c \in CleanupCallers : DsCleanupDisconnected(c)
    \/ \E c \in CleanupCallers : DsCleanupFails(c)

\* The unary request of the first part stays idle in the specifications
\* below: its inputs are fixed.
InitStream == Init /\ via = "direct" /\ sessionId = "" /\ ~sseLive

\* A relay streaming connection and a direct streaming session side by side.
NextStream == SseConnection \/ DirectStream
SpecStream == InitStream /\ [][NextStream]_vars

\* Every broker command is answered, every settled promise is continued and
\* both timers run; no client is obliged to go away.
FairSpecStream ==
    /\ SpecStream
    /\ WF_vars(ScSubscribeOk \/ ScSubscribeFails)
    /\ WF_vars(ScConnected \/ ScConnectFails)
    /\ WF_vars(ScTimerFires)
    /\ WF_vars(ScWake)
    /\ WF_vars(ScUnsubscribed \/ ScUnsubscribeFails)
    /\ WF_vars(DsConnected \/ DsConnectFails)
    /\ WF_vars(DsSubscribed \/ DsAnnounced \/ DsSetupFails)
    /\ WF_vars(DsPing)
    /\ \A c \in CleanupCallers :
          WF_vars(DsCleanupUnsubscribed(c) \/ DsCleanupPublished(c)
                  \/ DsCleanupDisconnected(c) \/ DsCleanupFails(c))

\* The direct streaming session with the POST /message route that feeds it.
NextDirect == DirectStream \/ Route
SpecDirect == InitStream /\ [][NextDirect]_vars

----------------------------------------------------------------------------
(* Properties of the streaming connections *)

\* How many client_disconnected events were published on session:S.
DisconnectedEvents ==
    Cardinality({i \in 1..Len(ds.sessionEvents) :
                    ds.sessionEvents[i] = "client_disconnected"})

\* C12: however many times sseCleanup is called for a direct streaming
\* session, by the abort listener, by cancel() or by both while the other
\* call is still running, at most one client_disconnected event is published
\* on session:S.
C12_CleanupIdempotent == DisconnectedEvents <= 1

\* The route's publish to events:S has been done.
EventPublished == rt.pc \in {"disconnecting", "returned"} /\ Len(rt.ops) >= 2

\* C13 as stated: the first frame is the connection frame and every later
\* frame is a heartbeat or an event relayed from events:S.
C13_OnlyPingsAndEvents ==
    /\ ds.pc = "streaming" => Len(ds.frames) >= 1
    /\ \A i \in 1..Len(ds.frames) :
          IF i = 1 THEN ds.frames[i] = ConnectionFrame
          ELSE ds.frames[i] \in {PingFrame, EventMessage}

\* C13: on a direct streaming connection the connection frame is sent
\* first, before the response is returned; every later frame is a
\* heartbeat, a message published on events:S passed on unchanged, or the
\* one error frame sent when setting up the subscription failed.
C13_FrameSequence ==
    /\ ds.pc = "streaming" => Len(ds.frames) >= 1
    /\ \A i \in 1..Len(ds.frames) :
          IF i = 1 THEN ds.frames[i] = ConnectionFrame
          ELSE \/ ds.frames[i] = PingFrame
               \/ ds.frames[i] = EventMessage /\ EventPublished
               \/ ds.frames[i] = ErrorFrame /\ ds.setup = "failed"
    /\ Cardinality({i \in 1..Len(ds.frames) : ds.frames[i] = ErrorFrame}) <= 1

\* A stream that sent the connection frame, then a heartbeat, an event and
\* the error frame.
C13_Witness ==
    /\ Len(ds.frames) = 4
    /\ \E i, j, k \in 2..4 :
          /\ ds.frames[i] = PingFrame
          /\ ds.frames[j] = EventMessage
          /\ ds.frames[k] = ErrorFrame

\* A call of sseCleanup has run to its end.
DsTornDown == \E c \in CleanupCallers : ds.cl[c] \in {"done", "failed"}

\* C14: every streaming connection is eventually torn down even when its
\* client never goes away: a started handleSseConnection returns, and an
\* open createSseStream session has a sseCleanup call run to its end.
C14_EventuallyClosed ==
    /\ (sc.pc = "subscribing") ~> (sc.pc = "returned")
    /\ (ds.pc = "streaming") ~> DsTornDown

\* C15: an operation addressed to a session that is not live ends in an
\* error: a POST /message event for a sessionId no stream was ever opened
\* for is not answered with success, and a unary request published for a
\* sessionId no handleSseConnection is subscribed for is answered with an
\* error status (the adapter's 30-second fallback left aside).
C15_DeadSessionFails ==
    /\ (rt.pc = "returned" /\ rt.data = "withSessionId" /\ ds.frames = <<>>)
          => rt.status >= 400
    /\ (reqPublished /\ ~sseLive /\ CallerResolved /\ adapter.timeout # "fired")
          => CallerResponse.status >= 400

----------------------------------------------------------------------------
(* The request envelope: serializedRequest, JSON, createFakeIncomingMessage *)

\* An optional value: undefined, or one value.
Undefined == {}
Some(v) == {v}
Value(x) == CHOOSE v \in x : TRUE

\* Inbound requests that reach handleMessageEndpoint with a sessionId.
Methods == {"POST", "GET", "PUT"}
Urls == {"/message?sessionId=s1", "/message?sessionId=s1&x=1"}
Bodies == {"", "{jsonrpc}"}
RequestIds == {"r1", "r2"}

\* IncomingHttpHeaders: a value is a string or, for set-cookie, an array.
Str(v) == <<"string", v>>
Arr(a) == <<"array", a>>
HeaderSets ==
    { <<>>,
      [h \in {"content-type"} |-> Str("application/json")],
      [h \in {"content-type", "content-length"} |->
          IF h = "content-type" THEN Str("application/json") ELSE Str("9")],
      [h \in {"content-type", "set-cookie"} |->
          IF h = "content-type" THEN Str("text/plain") ELSE Arr(<<"a=1", "b=2">>)] }

\* x || "" of the serializer.
OrEmpty(x) == IF x = Undefined \/ x = Some("") THEN "" ELSE Value(x)

\* JSON.stringify of the headers object: its name/value pairs.
JsonObject(h) == {<<k, h[k]>> : k \in DOMAIN h}

\* JSON.parse of such an object.
ParseObject(pairs) ==
    [k \in {q[1] : q \in pairs} |-> (CHOOSE q \in pairs : q[1] = k)[2]]

\* serializedRequest of handleMessageEndpoint and its JSON.stringify.
SerializeRequest(req, requestId, body) ==
    <<"json", requestId, OrEmpty(req.url), OrEmpty(req.method), body,
      JsonObject(req.headers)>>

\* JSON.parse(message) as SerializedRequest; every member is present in a
\* message the relay serialized.
ParseRequest(m) ==
    [requestId |-> m[2], url |-> Some(m[3]), method |-> Some(m[4]),
     body |-> Some(m[5]), headers |-> Some(ParseObject(m[6]))]

\* A destructuring default: it applies to undefined only.
Default(x, d) == IF x = Undefined THEN d ELSE Value(x)

\* The synthetic request that ignores the envelope's method.
createFakeIncomingMessage_NoMethod(options) ==
    [method |-> "GET",
     url |-> Default(options.url, "/"),
     headers |-> Default(options.headers, <<>>),
     ended |-> Default(options.body, "") # ""]

\* createFakeIncomingMessage(options): method, url and headers with their
\* defaults; the body stream is ended only when a body was given.
createFakeIncomingMessage(options) ==
    [method |-> Default(options.method, "GET"),
     url |-> Default(options.url, "/"),
     headers |-> Default(options.headers, <<>>),
     ended |-> Default(options.body, "") # ""]

\* handleMessageEndpoint up to the publish: the inbound request, the
\* generated requestId and the serialized envelope.
EnvSerialize ==
    /\ env.pc = "idle"
    /\ \E method \in Methods, url \in Urls, headers \in HeaderSets,
          body \in Bodies, requestId \in RequestIds :
          LET req == [method |-> Some(method), url |-> Some(url), headers |-> headers]
          IN  env' = [env EXCEPT !.pc = "published", !.req = req,
                                 !.requestId = requestId,
                                 !.msg = SerializeRequest(req, requestId, body)]
    /\ UNCHANGED <<relayVars, rt, sc, ds, mx>>

\* handleMessage: JSON.parse of the message and the synthetic request.
EnvRebuild ==
    /\ env.pc = "published"
    /\ LET request == ParseRequest(env.msg)
       IN  env' = [env EXCEPT !.pc = "rebuilt",
                              !.fake = createFakeIncomingMessage(request),
                              !.parsedId = request.requestId]
    /\ UNCHANGED <<relayVars, rt, sc, ds, mx>>

NextEnvelope == EnvSerialize \/ EnvRebuild
SpecEnvelope == InitStream /\ [][NextEnvelope]_vars

\* C16: the synthetic request the session subscriber rebuilds from the
\* serialized envelope has the method, the url and the headers of the
\* inbound request, and the requestId parsed from the envelope is the one
\* the relay generated.
C16_EnvelopeRoundTrip ==
    env.pc = "rebuilt" =>
        /\ Some(env.fake.method) = env.req.method
        /\ Some(env.fake.url) = env.req.url
        /\ env.fake.headers = env.req.headers
        /\ env.parsedId = env.requestId

\* A PUT request with an array-valued header went through the envelope.
C16_Witness ==
    /\ env.pc = "rebuilt"
    /\ env.req.method = Some("PUT")
    /\ "set-cookie" \in DOMAIN env.req.headers
    /\ env.fake.method = "PUT"

----------------------------------------------------------------------------
(* Teardown of the streaming connections *)

\* C18: whenever handleSseConnection has returned, whatever ended it,
\* cleanup() has run exactly once: the max-duration timer is not left armed,
\* the logger interval is cleared and the response is ended.
C18_CleanupOnEveryExit ==
    sc.pc = "returned" =>
        /\ sc.cleanups = 1
        /\ sc.timer # "armed"
        /\ sc.logger = "cleared"
        /\ sc.res.ends >= 1

\* C19: a call of sseCleanup that has run to its end has done all four
\* steps: the keep-alive interval is cancelled, the events:S listener is
\* gone, a client_disconnected event is on session:S and both broker
\* clients are closed.
C19_AllTeardownSteps ==
    DsTornDown =>
        /\ ds.keepAlive = "cleared"
        /\ ~ds.listening
        /\ DisconnectedEvents >= 1
        /\ ~ds.subOpen /\ ~ds.pubOpen

\* C20: once cleanup() of a relay streaming connection has completed and
\* no close notification of its transport is outstanding, its server is
\* not in activeServers, its max-duration timer is not armed and its logger
\* interval is cleared.
C20_DeregisteredOnTeardown ==
    (sc.pc = "returned" /\ sc.cleanups >= 1 /\ ~ENABLED ScOnClose) =>
        /\ ~sc.active
        /\ sc.timer # "armed"
        /\ sc.logger = "cleared"

----------------------------------------------------------------------------
(* Events and lifecycle of the direct streaming session *)

\* C21: an event published on events:S after the connection frame was sent
\* and before any sseCleanup call began is forwarded to the client: the
\* publish step appends exactly that message, once, to the frames sent.
C21_EventForwarded ==
    [][ (/\ rt.pc = "publishing" /\ rt'.pc = "disconnecting"
         /\ ds.frames # <<>>
         /\ ds.cl.abort = "idle" /\ ds.cl.cancel = "idle")
        => ds'.frames = Append(ds.frames, EventMessage) ]_vars

\* C26: no request establishes a broker connection of its own: the direct
\* streaming session holds no open client of its own and the POST /message
\* route has issued no broker command on a client of its own.
C26_SharedConnectionOnly ==
    /\ ~ds.subOpen
    /\ ~ds.pubOpen
    /\ rt.ops = <<>>

\* C28: handleSseConnection calls server.connect, which announces the
\* session to the client, only with the subscription to requests:S
\* confirmed; a connection whose subscribe failed has returned with one
\* 500 written and was never connected.
C28_AnnounceAfterSubscribe ==
    /\ sc.pc \in {"connecting", "waiting"} => sc.subscribed
    /\ sc.connected => (sc.subscribed \/ sc.cleanups >= 1)
    /\ (sc.pc = "returned" /\ sc.cleanups = 0)
          => /\ ~sc.connected
             /\ ~sc.subscribed
             /\ sc.res = [statusCode |-> StatusInternal, ends |-> 1]

\* A connected session whose subscription to requests:S is in place.
C28_Witness == sc.pc = "waiting" /\ sc.connected /\ sc.subscribed

\* C29: on session:S client_connected is published at most once and every
\* client_disconnected has a client_connected published before it.
C29_LifecycleOrdered ==
    LET ev == ds.sessionEvents
    IN  /\ Cardinality({i \in 1..Len(ev) : ev[i] = "client_connected"}) <= 1
        /\ \A i \in 1..Len(ev) :
              ev[i] = "client_disconnected"
                  => \E j \in 1..(i - 1) : ev[j] = "client_connected"

----------------------------------------------------------------------------
(* Several sessions and requests on the one subscriber connection           *)
(* redis.client: two streaming connections and two unary requests, each     *)
(* handler taken from its subscribe to its unsubscribe in whole steps.      *)

Conns == {1, 2}
Reqs == {1, 2}
SessionIds == {"s1", "s2"}

\* The listeners redis.client holds on channel ch.
ListenersOn(ch) == {l \in mx.listeners : l.channel = ch}

\* A streaming connection that takes a sessionId already in use.
MxOpen_SameSession(c) ==
    /\ mx.conn[c].pc = "idle"
    /\ \E sid \in SessionIds :
          mx' = [mx EXCEPT
                   !.conn[c] = [pc |-> "live", sid |-> sid],
                   !.listeners = @ \cup {[channel |-> RequestChannel(sid),
                                          owner |-> <<"conn", c>>]}]
    /\ UNCHANGED <<relayVars, rt, sc, ds, env>>

\* handleSseConnection up to its subscribe: the transport's sessionId is a
\* fresh UUID and handleMessage is subscribed to requests:{sessionId}.
MxOpen(c) ==
    /\ mx.conn[c].pc = "idle"
    /\ \E sid \in SessionIds \ {mx.conn[d].sid : d \in Conns} :
          mx' = [mx EXCEPT
                   !.conn[c] = [pc |-> "live", sid |-> sid],
                   !.listeners = @ \cup {[channel |-> RequestChannel(sid),
                                          owner |-> <<"conn", c>>]}]
    /\ UNCHANGED <<relayVars, rt, sc, ds, env>>

\* cleanup(): redis.client.unsubscribe(requests:{sessionId}, handleMessage)
\* removes that listener of that channel.
MxClose(c) ==
    /\ mx.conn[c].pc = "live"
    /\ mx' = [mx EXCEPT
                 !.conn[c].pc = "closed",
                 !.listeners = @ \ {[channel |-> RequestChannel(mx.conn[c].sid),
                                     owner |-> <<"conn", c>>]}]
    /\ UNCHANGED <<relayVars, rt, sc, ds, env>>

\* handleMessageEndpoint for a request addressed to session sid: a fresh
\* requestId, the timer, the listener on responses:sid:rid, and the publish
\* to requests:sid, which starts handleMessage of every listener there.
MxPost(q) ==
    /\ mx.req[q].pc = "idle"
    /\ \E sid \in SessionIds, rid \in RequestIds \ {mx.req[p].rid : p \in Reqs} :
          mx' = [mx EXCEPT
                   !.req[q] = [@ EXCEPT !.pc = "waiting", !.sid = sid, !.rid = rid,
                                        !.timer = "armed"],
                   !.listeners = @ \cup {[channel |-> ReplyChannel(sid, rid),
                                          owner |-> <<"req", q>>]},
                   !.inflight = @ \cup {[conn |-> l.owner[2], rid |-> rid] :
                                           l \in ListenersOn(RequestChannel(sid))}]
    /\ UNCHANGED <<relayVars, rt, sc, ds, env>>

\* The reply listener of one request: clearTimeout, then statusCode and end;
\* only the first end reaches the caller.
MxReply(r, e) ==
    [r EXCEPT !.timer = ClearTimer(@),
              !.pc = "done",
              !.outcome = IF @.status = 0 THEN e ELSE @]

\* The envelope one handleMessage invocation delivers, to the listeners the
\* given set of reply channels has.
MxDeliver(i, channels) ==
    LET sid == mx.conn[i.conn].sid
        e == [status |-> 202, body |-> "Accepted", by |-> <<sid, i.rid>>]
    IN  mx' = [mx EXCEPT
                 !.inflight = @ \ {i},
                 !.req = [q \in Reqs |->
                            IF \E l \in mx.listeners :
                                 l.channel \in channels /\ l.owner = <<"req", q>>
                            THEN MxReply(mx.req[q], e)
                            ELSE mx.req[q]]]

\* A handleMessage that publishes on every reply channel of its session.
MxHandle_Broadcast(i) ==
    /\ i \in mx.inflight
    /\ MxDeliver(i, {ReplyChannel(mx.conn[i.conn].sid, r) : r \in RequestIds})
    /\ UNCHANGED <<relayVars, rt, sc, ds, env>>

\* handleMessage of connection i.conn for request i.rid: the captured
\* result is published on responses:{its sessionId}:{i.rid}.
MxHandle(i) ==
    /\ i \in mx.inflight
    /\ MxDeliver(i, {ReplyChannel(mx.conn[i.conn].sid, i.rid)})
    /\ UNCHANGED <<relayVars, rt, sc, ds, env>>

\* A timeout callback that unsubscribes every reply channel.
MxTimeout_UnsubscribeAll(q) ==
    /\ mx.req[q].timer = "armed"
    /\ mx' = [mx EXCEPT
                 !.req[q] = [@ EXCEPT !.timer = "done", !.pc = "done",
                                      !.outcome = [status |-> StatusTimeout,
                                                   body |-> BodyTimeout, by |-> <<>>]],
                 !.listeners = {l \in @ : l.channel[1] # "responses"}]
    /\ UNCHANGED <<relayVars, rt, sc, ds, env>>

\* The 10-second timer of request q: unsubscribe(responses:sid:rid), which
\* removes the listeners of that channel, then 408.
MxTimeout(q) ==
    /\ mx.req[q].timer = "armed"
    /\ mx' = [mx EXCEPT
                 !.req[q] = [@ EXCEPT !.timer = "done", !.pc = "done",
                                      !.outcome = [status |-> StatusTimeout,
                                                   body |-> BodyTimeout, by |-> <<>>]],
                 !.listeners = @ \ ListenersOn(ReplyChannel(mx.req[q].sid, mx.req[q].rid))]
    /\ UNCHANGED <<relayVars, rt, sc, ds, env>>

NextShared ==
    \/ \E c \in Conns : MxOpen(c)
    \/ \E c \in Conns : MxClose(c)
    \/ \E q \in Reqs : MxPost(q)
    \/ \E c \in Conns, r \in RequestIds : MxHandle([conn |-> c, rid |-> r])
    \/ \E q \in Reqs : MxTimeout(q)

SpecShared == InitStream /\ [][NextShared]_vars

\* C23: a caller waiting on (S, R) that was resolved with a captured result
\* was resolved with the result of the handleMessage invocation of request R
\* in session S, whatever other requests of the same or another session were
\* processed on the shared subscriber connection.
C23_CallerIsolation ==
    \A q \in Reqs :
        mx.req[q].outcome.by # <<>> =>
            mx.req[q].outcome.by = <<mx.req[q].sid, mx.req[q].rid>>

\* Two requests of one session, both processed, each resolved with its own
\* result.
C23_Witness ==
    /\ mx.req[1].sid = mx.req[2].sid
    /\ \A q \in Reqs : /\ mx.req[q].pc = "done"
                        /\ mx.req[q].outcome.status = 202
                        /\ mx.req[q].outcome.by = <<mx.req[q].sid, mx.req[q].rid>>

\* C27: every channel requests:S has at most one subscribed handler.
C27_OneRequestSubscriber ==
    \A s \in SessionIds : Cardinality(ListenersOn(RequestChannel(s))) <= 1

\* Both streaming connections subscribed at once, on different sessions.
C27_Witness ==
    /\ \A c \in Conns : mx.conn[c].pc = "live"
    /\ mx.conn[1].sid # mx.conn[2].sid
    /\ \A c \in Conns : Cardinality(ListenersOn(RequestChannel(mx.conn[c].sid))) = 1

\* What belongs to connections other than c and to requests other than q.
OthersUnchanged(cs, qs) ==
    /\ \A d \in Conns \ cs : mx'.conn[d] = mx.conn[d]
    /\ \A p \in Reqs \ qs : mx'.req[p] = mx.req[p]
    /\ {l \in mx'.listeners : l.owner[1] = "conn" /\ l.owner[2] \notin cs}
         = {l \in mx.listeners : l.owner[1] = "conn" /\ l.owner[2] \notin cs}
    /\ {l \in mx'.listeners : l.owner[1] = "req" /\ l.owner[2] \notin qs}
         = {l \in mx.listeners : l.owner[1] = "req" /\ l.owner[2] \notin qs}

\* C30: the cleanup of one streaming session leaves every other session's
\* subscription and every request's listener, timer and outcome as they
\* were; the timeout of one request leaves every session's subscription and
\* every other request's listener, timer and outcome as they were; a reply
\* changes only the requests listening on its own reply channel.
C30_SharedSubscriberFrame ==
    [][/\ \A c \in Conns :
            (mx.conn[c].pc = "live" /\ mx'.conn[c].pc = "closed")
                => OthersUnchanged({c}, {})
       /\ \A q \in Reqs :
            (mx.req[q].timer = "armed" /\ mx'.req[q].timer = "done")
                => OthersUnchanged({}, {q})
       /\ \A q \in Reqs :
            (mx.req[q].timer = "armed" /\ mx'.req[q].timer = "cleared")
                => OthersUnchanged({}, {p \in Reqs : /\ mx.req[p].sid = mx.req[q].sid
                                                     /\ mx.req[p].rid = mx.req[q].rid})]_vars

\* One session torn down and one request timed out while the other session
\* is still subscribed and the other request still waits with its timer.
C30_Witness ==
    /\ mx.conn[1].pc = "closed" /\ mx.conn[2].pc = "live"
    /\ ListenersOn(RequestChannel(mx.conn[2].sid)) # {}
    /\ mx.req[1].outcome.status = StatusTimeout
    /\ mx.req[2].pc = "waiting" /\ mx.req[2].timer = "armed"
    /\ ListenersOn(ReplyChannel(mx.req[2].sid, mx.req[2].rid)) # {}

====
